---- MODULE Spec2Model ----
(***************************************************************************)
(* Model of examples/relation_classification/utils.py: the example builder *)
(* (DatasetProcessor._create_examples, get_label_list) and the feature     *)
(* encoder (convert_examples_to_features).                                 *)
(*                                                                         *)
(* A Python str is modelled as the sequence of its code points, a list as  *)
(* a sequence, a tuple as a tuple.  Entity types, dictionary keys and      *)
(* exception names, which the code only compares, are TLA+ strings.        *)
(* Python offsets are 0-based and kept 0-based in every recorded span;     *)
(* only the TLA+ sequence accesses add 1.                                  *)
(***************************************************************************)
EXTENDS Integers, Sequences, FiniteSets, TLC

VARIABLES data, examples, label_list, called, raised, args, features, locals

vars == <<data, examples, label_list, called, raised, args, features, locals>>

(***************************************************************************)
(* Bounds of the model.                                                    *)
(***************************************************************************)
\* longest token list of a record whose tokens and spans are enumerated
MaxTokens == 3
\* most records in a training file whose labels are enumerated
MaxTrain == 3
\* longest text of an enumerated InputExample handed to the encoder
MaxTextLen == 3
\* largest max_mention_length passed to the encoder
MaxMentionLength == 3
\* longest subword piece the modelled tokenizer emits
MaxPieceLen == 2

(***************************************************************************)
(* Python built-ins used by the code.                                      *)
(***************************************************************************)
\* ' '
SP == 32

Min(a, b) == IF a < b THEN a ELSE b

Max(a, b) == IF a < b THEN b ELSE a

\* a slice bound i of a sequence of length n: negative counts from the end,
\* everything is clamped to 0..n
PyIndex(i, n) == IF i < 0 THEN Max(i + n, 0) ELSE Min(i, n)

\* s[lo:hi] with 0-based half-open bounds
PySlice(s, lo, hi) ==
    LET a == PyIndex(lo, Len(s))
        b == PyIndex(hi, Len(s))
    IN  IF a < b THEN SubSeq(s, a + 1, b) ELSE <<>>

\* s[lo:]
PySliceFrom(s, lo) == PySlice(s, lo, Len(s))

RECURSIVE Join(_)
\* ' '.join(strs)
Join(strs) ==
    IF strs = <<>> THEN <<>>
    ELSE IF Len(strs) = 1 THEN strs[1]
    ELSE strs[1] \o <<SP>> \o Join(Tail(strs))

\* the code points str.isspace() holds of: the ones rstrip() and split() take away
Whitespace ==
    {9, 10, 11, 12, 13, 28, 29, 30, 31, 32, 133, 160, 5760}
        \cup (8192..8202) \cup {8232, 8233, 8239, 8287, 12288}

IsSpace(c) == c \in Whitespace

RECURSIVE RStrip(_)
\* s.rstrip()
RStrip(s) ==
    IF s # <<>> /\ IsSpace(s[Len(s)]) THEN RStrip(SubSeq(s, 1, Len(s) - 1)) ELSE s

RECURSIVE StrLess(_, _)
\* a < b on Python str: lexicographic by code point, a proper prefix is smaller
StrLess(a, b) ==
    IF b = <<>> THEN FALSE
    ELSE IF a = <<>> THEN TRUE
    ELSE IF a[1] < b[1] THEN TRUE
    ELSE IF b[1] < a[1] THEN FALSE
    ELSE StrLess(Tail(a), Tail(b))

RECURSIVE Sorted(_)
\* sorted(S) for a set of str
Sorted(S) ==
    IF S = {} THEN <<>>
    ELSE LET m == CHOOSE x \in S : \A y \in S \ {x} : StrLess(x, y)
         IN  <<m>> \o Sorted(S \ {m})

(***************************************************************************)
(* Module constants.                                                       *)
(***************************************************************************)
ENTITY_TYPES ==
    <<"CAUSE_OF_DEATH", "CITY", "COUNTRY", "CRIMINAL_CHARGE", "DATE", "DURATION",
      "IDEOLOGY", "LOCATION", "MISC", "NATIONALITY", "NUMBER", "ORGANIZATION",
      "PERSON", "RELIGION", "STATE_OR_PROVINCE", "TITLE", "URL">>

\* '[HEAD]'
HEAD_TOKEN == <<91, 72, 69, 65, 68, 93>>

\* '[TAIL]'
TAIL_TOKEN == <<91, 84, 65, 73, 76, 93>>

\* 'no_relation'
NoRelation == <<110, 111, 95, 114, 101, 108, 97, 116, 105, 111, 110>>

(***************************************************************************)
(* DatasetProcessor._create_examples                                       *)
(***************************************************************************)
\* token_spans = dict(subj=(subj_start, subj_end + 1), obj=(obj_start, obj_end + 1))
TokenSpans(item) ==
    [subj |-> <<item.subj_start, item.subj_end + 1>>,
     obj  |-> <<item.obj_start, item.obj_end + 1>>]

EntityOrderTieSubj(token_spans) ==
    IF token_spans.subj[1] <= token_spans.obj[1]
    THEN <<"subj", "obj">> ELSE <<"obj", "subj">>

\* the if/else that picks entity_order
EntityOrder(token_spans) ==
    IF token_spans.subj[1] < token_spans.obj[1]
    THEN <<"subj", "obj">> ELSE <<"obj", "subj">>

SeparateAlways(text) == text \o <<SP>>

\* if text: text += ' '
Separate(text) == IF text # <<>> THEN text \o <<SP>> ELSE text

AppendEntityNoSpace(text, entity_tokens) == text \o Join(entity_tokens)

\* text += ' '.join(tokens[token_span[0]:token_span[1]]) + ' '
AppendEntity(text, entity_tokens) == text \o Join(entity_tokens) \o <<SP>>

FinishTextNoStrip(text, rest) == text \o Join(rest)

\* text += ' '.join(tokens[cur:]); text = text.rstrip()
FinishText(text, rest) == RStrip(text \o Join(rest))

EmitEntityEarlyStart(st, tokens, token_spans, target_entity) ==
    LET token_span == token_spans[target_entity]
        joined == st.text \o Join(PySlice(tokens, st.cur, token_span[1]))
        after  == AppendEntity(Separate(joined), PySlice(tokens, token_span[1], token_span[2]))
    IN  [text |-> after,
         cur  |-> token_span[2],
         char_spans |-> [st.char_spans EXCEPT ![target_entity] = <<Len(joined), Len(after)>>]]

\* one pass of the loop over entity_order; st holds text, cur and char_spans
EmitEntity(st, tokens, token_spans, target_entity) ==
    LET token_span == token_spans[target_entity]
        before == Separate(st.text \o Join(PySlice(tokens, st.cur, token_span[1])))
        after  == AppendEntity(before, PySlice(tokens, token_span[1], token_span[2]))
    IN  [text |-> after,
         cur  |-> token_span[2],
         char_spans |-> [st.char_spans EXCEPT ![target_entity] = <<Len(before), Len(after)>>]]

\* the body of the loop over the records: the InputExample built from item number i
CreateExample(set_type, i, item) ==
    LET tokens == item.token
        token_spans == TokenSpans(item)
        entity_order == EntityOrder(token_spans)
        st0 == [text |-> <<>>, cur |-> 0,
                char_spans |-> [subj |-> <<-1, -1>>, obj |-> <<-1, -1>>]]
        st1 == EmitEntity(st0, tokens, token_spans, entity_order[1])
        st2 == EmitEntity(st1, tokens, token_spans, entity_order[2])
    IN  [id |-> <<set_type, i>>,
         text |-> FinishText(st2.text, PySliceFrom(tokens, st2.cur)),
         span_a |-> st2.char_spans.subj,
         span_b |-> st2.char_spans.obj,
         type_a |-> item.subj_type,
         type_b |-> item.obj_type,
         label |-> item.relation]

\* _create_examples on the parsed content of <set_type>.json
CreateExamples(set_type, file) ==
    [i \in 1..Len(file) |-> CreateExample(set_type, i - 1, file[i])]

(***************************************************************************)
(* DatasetProcessor.get_label_list                                         *)
(***************************************************************************)
LabelListKeepNoRelation(train_examples) ==
    <<NoRelation>> \o Sorted({train_examples[i].label : i \in 1..Len(train_examples)})

LabelList(train_examples) ==
    LET labels == {train_examples[i].label : i \in 1..Len(train_examples)}
    IN  <<NoRelation>> \o Sorted(labels \ {NoRelation})

(***************************************************************************)
(* The tokenizer handed to convert_examples_to_features.  It is an         *)
(* external collaborator; the model uses a word-piece style tokenizer that *)
(* splits the text at whitespace and cuts every word into pieces of at     *)
(* most tokenizer.piece_len characters.                                    *)
(***************************************************************************)
\* '[CLS]'
cls_token == <<91, 67, 76, 83, 93>>

\* '[SEP]'
sep_token == <<91, 83, 69, 80, 93>>

RECURSIVE Pieces(_, _)
Pieces(word, n) ==
    IF word = <<>> THEN <<>>
    ELSE IF Len(word) <= n THEN <<word>>
    ELSE <<SubSeq(word, 1, n)>> \o Pieces(SubSeq(word, n + 1, Len(word)), n)

RECURSIVE TokenizeFrom(_, _, _)
\* word is the word read so far, text the characters still to read
TokenizeFrom(word, text, n) ==
    IF text = <<>> THEN Pieces(word, n)
    ELSE IF IsSpace(text[1]) THEN Pieces(word, n) \o TokenizeFrom(<<>>, Tail(text), n)
    ELSE TokenizeFrom(Append(word, text[1]), Tail(text), n)

\* tokenize(text)
Tokenize(tokenizer, text) == TokenizeFrom(<<>>, text, tokenizer.piece_len)

\* 'a', 'b', 'c', any other character
CharId(c) == CASE c = 97 -> 1 [] c = 98 -> 2 [] c = 99 -> 3 [] OTHER -> 4

RECURSIVE PieceId(_)
PieceId(piece) ==
    IF piece = <<>> THEN 0 ELSE CharId(piece[1]) + 5 * PieceId(Tail(piece))

\* tokenizer.convert_tokens_to_ids(tokens)
ConvertTokensToIds(tokens) ==
    [k \in 1..Len(tokens) |->
        CASE tokens[k] = cls_token -> 0
          [] tokens[k] = sep_token -> 2
          [] tokens[k] = HEAD_TOKEN -> 3
          [] tokens[k] = TAIL_TOKEN -> 4
          [] OTHER -> 4 + PieceId(tokens[k])]

(***************************************************************************)
(* convert_examples_to_features                                            *)
(***************************************************************************)
\* label_map = {l: i for i, l in enumerate(label_list)}; -1 stands for a missing key
LabelMap(labels, l) ==
    LET at == {i \in 1..Len(labels) : labels[i] = l}
    IN  IF at = {} THEN -1 ELSE (CHOOSE i \in at : \A j \in at : j <= i) - 1

\* type_map = {t: i + 1 for i, t in enumerate(ENTITY_TYPES)}; -1 stands for a missing key
TypeMap(t) ==
    LET at == {i \in 1..Len(ENTITY_TYPES) : ENTITY_TYPES[i] = t}
    IN  IF at = {} THEN -1 ELSE CHOOSE i \in at : TRUE

SpanOrderTieA(example) ==
    IF example.span_a[2] <= example.span_b[2]
    THEN <<"span_a", "span_b">> ELSE <<"span_b", "span_a">>

\* the if/else that picks span_order
SpanOrder(example) ==
    IF example.span_a[2] < example.span_b[2]
    THEN <<"span_a", "span_b">> ELSE <<"span_b", "span_a">>

MarkerAlwaysHead(span_name) == HEAD_TOKEN

\* HEAD_TOKEN if span_name == 'span_a' else TAIL_TOKEN
Marker(span_name) == IF span_name = "span_a" THEN HEAD_TOKEN ELSE TAIL_TOKEN

\* one pass of the loop over span_order; st holds tokens, cur and token_spans
EncodeSpan(st, example, tokenizer, use_marker_token, span_name) ==
    LET span == example[span_name]
        before == st.tokens \o Tokenize(tokenizer, PySlice(example.text, st.cur, span[1]))
        start == Len(before)
        opened == IF use_marker_token THEN Append(before, Marker(span_name)) ELSE before
        inside == opened \o Tokenize(tokenizer, PySlice(example.text, span[1], span[2]))
        closed == IF use_marker_token THEN Append(inside, Marker(span_name)) ELSE inside
    IN  [tokens |-> closed,
         cur |-> span[2],
         token_spans |-> [st.token_spans EXCEPT ![span_name] = <<start, Len(closed)>>]]

\* list(range(lo, hi))
Range(lo, hi) == [k \in 1..Max(hi - lo, 0) |-> lo + k - 1]

\* [x] * n
Repeat(x, n) == [k \in 1..Max(n, 0) |-> x]

PositionIdsNoTruncate(span, max_mention_length) ==
    Range(span[1], span[2]) \o Repeat(-1, max_mention_length - span[2] + span[1])

\* the body of the loop that fills entity_position_ids
PositionIds(span, max_mention_length) ==
    PySlice(Range(span[1], span[2]), 0, max_mention_length)
        \o Repeat(-1, max_mention_length - span[2] + span[1])

\* the body of the loop over the examples: the locals it leaves, the InputFeatures
\* it appends, and the exception it raises instead ("none" when it raises nothing)
ConvertExample(example, labels, tokenizer, max_mention_length, use_entity_type_token, use_marker_token) ==
    LET span_order == SpanOrder(example)
        st0 == [tokens |-> <<cls_token>>, cur |-> 0,
                token_spans |-> [span_a |-> <<-1, -1>>, span_b |-> <<-1, -1>>]]
        st1 == EncodeSpan(st0, example, tokenizer, use_marker_token, span_order[1])
        st2 == EncodeSpan(st1, example, tokenizer, use_marker_token, span_order[2])
        tokens == Append(st2.tokens \o Tokenize(tokenizer, PySliceFrom(example.text, st2.cur)),
                         sep_token)
        entity_ids == IF use_entity_type_token
                      THEN <<TypeMap(example.type_a), TypeMap(example.type_b)>>
                      ELSE <<1, 1>>
        label == LabelMap(labels, example.label)
    IN  [locals |-> [span_order |-> span_order, tokens |-> tokens,
                     token_spans |-> st2.token_spans],
         raised |-> IF -1 \in {entity_ids[1], entity_ids[2], label}
                    THEN "KeyError" ELSE "none",
         features |->
            [word_ids |-> ConvertTokensToIds(tokens),
             word_segment_ids |-> Repeat(0, Len(tokens)),
             word_attention_mask |-> Repeat(1, Len(tokens)),
             entity_ids |-> entity_ids,
             entity_position_ids |->
                <<PositionIds(st2.token_spans.span_a, max_mention_length),
                  PositionIds(st2.token_spans.span_b, max_mention_length)>>,
             entity_segment_ids |-> <<0, 0>>,
             entity_attention_mask |-> <<1, 1>>,
             label |-> label]]

\* what the loop has produced after one more example whose outcome is r
AfterExample(acc, r) ==
    [locals |-> Append(acc.locals, r.locals),
     raised |-> r.raised,
     features |-> IF r.raised = "none" THEN Append(acc.features, r.features) ELSE <<>>]

RECURSIVE ConvertLoop(_, _, _, _, _, _, _)
\* the loop over the examples still to convert; it stops at the first one that raises
ConvertLoop(acc, exs, labels, tokenizer, max_mention_length, use_entity_type_token, use_marker_token) ==
    IF exs = <<>> \/ acc.raised # "none" THEN acc
    ELSE ConvertLoop(AfterExample(acc, ConvertExample(Head(exs), labels, tokenizer,
                                                      max_mention_length,
                                                      use_entity_type_token,
                                                      use_marker_token)),
                     Tail(exs), labels, tokenizer, max_mention_length,
                     use_entity_type_token, use_marker_token)

\* the whole call
ConvertExamples(exs, labels, tokenizer, max_mention_length, use_entity_type_token, use_marker_token) ==
    ConvertLoop([locals |-> <<>>, raised |-> "none", features |-> <<>>], exs, labels,
                tokenizer, max_mention_length, use_entity_type_token, use_marker_token)

(***************************************************************************)
(* Inputs.                                                                 *)
(***************************************************************************)
\* 'lives_in'
LivesIn == <<108, 105, 118, 101, 115, 95, 105, 110>>

\* 'org:founded'
OrgFounded == <<111, 114, 103, 58, 102, 111, 117, 110, 100, 101, 100>>

\* 'org:founded_by'
OrgFoundedBy == OrgFounded \o <<95, 98, 121>>

LabelVocab == {NoRelation, LivesIn, OrgFounded, OrgFoundedBy}

\* tokens of the enumerated records: the ordinary 'a' and 'bc', and the empty
\* token, ' ' and '\t'
PlainVocab == {<<97>>, <<98, 99>>}

TokenVocab == PlainVocab \cup {<<>>, <<SP>>, <<9>>}

PlainLists == UNION {[1..n -> PlainVocab] : n \in 1..MaxTokens}

TokenLists == UNION {[1..n -> TokenVocab] : n \in 1..MaxTokens}

\* inclusive (start, end) token spans inside a list of n tokens
SpansIn(n) == {p \in (0..(n - 1)) \X (0..(n - 1)) : p[1] <= p[2]}

\* the same, and the spans that leave the token list on either side
SpansOf(n) == {p \in (-1..n) \X (-1..n) : p[1] <= p[2]}

Item(tokens, p, q) ==
    [token |-> tokens, subj_start |-> p[1], subj_end |-> p[2],
     obj_start |-> q[1], obj_end |-> q[2],
     subj_type |-> "PERSON", obj_type |-> "CITY", relation |-> LivesIn]

\* 'John / lives / in / Paris'
JohnTokens ==
    << <<74, 111, 104, 110>>, <<108, 105, 118, 101, 115>>, <<105, 110>>,
       <<80, 97, 114, 105, 115>> >>

JohnItem(relation) ==
    [token |-> JohnTokens, subj_start |-> 0, subj_end |-> 0, obj_start |-> 3, obj_end |-> 3,
     subj_type |-> "PERSON", obj_type |-> "CITY", relation |-> relation]

\* the contents train.json may have: nothing, up to MaxTrain records that differ in
\* their label, or one enumerated record (ordinary records first)
IsTrainFile(file) ==
    \/ file = <<>>
    \/ \E n \in 1..MaxTrain : \E ls \in [1..n -> LabelVocab] :
          file = [i \in 1..n |-> JohnItem(ls[i])]
    \/ \E tokens \in PlainLists :
          \E p \in SpansIn(Len(tokens)), q \in SpansIn(Len(tokens)) :
             file = <<Item(tokens, p, q)>>
    \/ \E tokens \in PlainLists :
          \E p \in SpansOf(Len(tokens)), q \in SpansOf(Len(tokens)) :
             file = <<Item(tokens, p, q)>>
    \/ \E tokens \in TokenLists :
          \E p \in SpansOf(Len(tokens)), q \in SpansOf(Len(tokens)) :
             file = <<Item(tokens, p, q)>>

\* 'a' and ' '
TextChars == {97, SP}

Texts == UNION {[1..n -> TextChars] : n \in 0..MaxTextLen}

\* half-open character spans with end > start; the end may lie one past the text,
\* as the end recorded for the last token of a sentence does
CharSpans(n) == {p \in (0..n) \X (1..(n + 1)) : p[1] < p[2]}

ExampleOver(text, p, q) ==
    [id |-> <<"train", 0>>, text |-> text, span_a |-> p, span_b |-> q,
     type_a |-> "PERSON", type_b |-> "CITY", label |-> LivesIn]

\* the example of JohnItem with a label or an entity type that may be unknown
OddExamples ==
    {[CreateExample("train", 0, JohnItem(l)) EXCEPT !.type_a = t] :
        l \in {LivesIn, OrgFounded}, t \in {"PERSON", "ALIEN"}}

\* the lists of examples handed to the encoder: none, one or two examples whose
\* label or entity type may be unknown, or one enumerated example
IsExampleList(exs) ==
    \/ exs = <<>>
    \/ \E e \in OddExamples : exs = <<e>>
    \/ \E e1 \in OddExamples, e2 \in OddExamples : exs = <<e1, e2>>
    \/ \E text \in Texts :
          \E p \in CharSpans(Len(text)), q \in CharSpans(Len(text)) :
             exs = <<ExampleOver(text, p, q)>>

NoArgs ==
    [tokenizer |-> [piece_len |-> 0], max_mention_length |-> 0,
     use_entity_type_token |-> FALSE, use_marker_token |-> FALSE]

(***************************************************************************)
(* The example builder on a training file.                                 *)
(***************************************************************************)
Init ==
    /\ IsTrainFile(data)
    /\ examples = <<>>
    /\ label_list = <<>>
    /\ called = {}
    /\ raised = "none"
    /\ args = NoArgs
    /\ features = <<>>
    /\ locals = <<>>

\* examples = processor.get_train_examples(data_dir)
GetTrainExamples ==
    /\ "get_train_examples" \notin called
    /\ examples' = CreateExamples("train", data)
    /\ called' = called \cup {"get_train_examples"}
    /\ UNCHANGED <<data, label_list, raised, args, features, locals>>

\* label_list = processor.get_label_list(data_dir)
GetLabelList ==
    /\ "get_label_list" \notin called
    /\ label_list' = LabelList(CreateExamples("train", data))
    /\ called' = called \cup {"get_label_list"}
    /\ UNCHANGED <<data, examples, raised, args, features, locals>>

Next == GetTrainExamples \/ GetLabelList

Spec == Init /\ [][Next]_vars

(***************************************************************************)
(* The feature encoder on a list of examples.                              *)
(***************************************************************************)
InitEnc ==
    /\ data = <<>>
    /\ IsExampleList(examples)
    /\ label_list = <<NoRelation, LivesIn>>
    /\ called = {}
    /\ raised = "none"
    /\ args = NoArgs
    /\ features = <<>>
    /\ locals = <<>>

\* features = convert_examples_to_features(examples, label_list, tokenizer, ...)
ConvertExamplesToFeatures(tokenizer, max_mention_length, use_entity_type_token, use_marker_token) ==
    /\ "convert_examples_to_features" \notin called
    /\ LET out == ConvertExamples(examples, label_list, tokenizer, max_mention_length,
                                  use_entity_type_token, use_marker_token)
       IN  /\ features' = out.features
           /\ locals' = out.locals
           /\ raised' = out.raised
    /\ args' = [tokenizer |-> tokenizer, max_mention_length |-> max_mention_length,
                use_entity_type_token |-> use_entity_type_token,
                use_marker_token |-> use_marker_token]
    /\ called' = called \cup {"convert_examples_to_features"}
    /\ UNCHANGED <<data, examples, label_list>>

NextEnc ==
    \E n \in 1..MaxPieceLen, m \in 1..MaxMentionLength, t \in BOOLEAN, k \in BOOLEAN :
        ConvertExamplesToFeatures([piece_len |-> n], m, t, k)

SpecEnc == InitEnc /\ [][NextEnc]_vars

(***************************************************************************)
(* Properties of the example builder, checked under Spec.                  *)
(***************************************************************************)
Created == "get_train_examples" \in called

Labelled == "get_label_list" \in called

Records == 1..Len(data)

\* both spans lie inside the token list, start <= end
InBounds(item) ==
    /\ 0 <= item.subj_start /\ item.subj_start <= item.subj_end
    /\ item.subj_end < Len(item.token)
    /\ 0 <= item.obj_start /\ item.obj_start <= item.obj_end
    /\ item.obj_end < Len(item.token)

NonOverlapping(item) ==
    item.subj_end < item.obj_start \/ item.obj_end < item.subj_start

Valid(item) == InBounds(item) /\ NonOverlapping(item)

\* the two entities have no token between them
Adjacent(item) ==
    item.subj_end + 1 = item.obj_start \/ item.obj_end + 1 = item.subj_start

NoWhitespace(item) ==
    \A k \in 1..Len(item.token) : \A j \in 1..Len(item.token[k]) :
        ~IsSpace(item.token[k][j])

\* every token is non-empty and free of whitespace
PlainTokens(item) ==
    NoWhitespace(item) /\ \A k \in 1..Len(item.token) : item.token[k] # <<>>

SubjText(item) == Join(SubSeq(item.token, item.subj_start + 1, item.subj_end + 1))

ObjText(item) == Join(SubSeq(item.token, item.obj_start + 1, item.obj_end + 1))

TextSlice(example, span) == PySlice(example.text, span[1], span[2])

\* C1 as stated: for a record with in-bounds, non-overlapping spans, slicing the
\* rebuilt text by span_a and span_b gives exactly the space-joined subject and
\* object tokens.
C1_SliceIsJoin ==
    Created =>
        \A i \in Records : Valid(data[i]) =>
            /\ TextSlice(examples[i], examples[i].span_a) = SubjText(data[i])
            /\ TextSlice(examples[i], examples[i].span_b) = ObjText(data[i])

SliceIsJoinThenSpace(example, span, joined) ==
    /\ span[2] <= Len(example.text) => TextSlice(example, span) = joined \o <<SP>>
    /\ RStrip(TextSlice(example, span)) = RStrip(joined)

\* C1 amended: for a record with in-bounds, non-overlapping spans, the slice of the
\* rebuilt text by a recorded span is the space-joined entity tokens followed by one
\* space whenever the recorded end lies inside the final text; in every case the
\* slice and the joined tokens are equal once trailing whitespace is stripped.
C1_SliceIsJoinThenSpace ==
    Created =>
        \A i \in Records : Valid(data[i]) =>
            /\ SliceIsJoinThenSpace(examples[i], examples[i].span_a, SubjText(data[i]))
            /\ SliceIsJoinThenSpace(examples[i], examples[i].span_b, ObjText(data[i]))

\* a record whose subject comes first and whose object is the last token: the
\* subject slice carries its trailing space, the object's end lies past the text
C1_Witness ==
    /\ Created
    /\ \E i \in Records :
        /\ Valid(data[i]) /\ PlainTokens(data[i])
        /\ data[i].subj_start > 0
        /\ data[i].obj_end = Len(data[i].token) - 1
        /\ TextSlice(examples[i], examples[i].span_a) = SubjText(data[i]) \o <<SP>>
        /\ examples[i].span_b[2] > Len(examples[i].text)

\* 'John lives in Paris'
JohnText ==
    <<74, 111, 104, 110, 32, 108, 105, 118, 101, 115, 32, 105, 110, 32,
      80, 97, 114, 105, 115>>

\* C2 as stated: the John/Paris record gives text "John lives in Paris",
\* span_a = (0, 4) and span_b = (15, 20).
C2_JohnSpans ==
    (Created /\ data = <<JohnItem(LivesIn)>>) =>
        /\ examples[1].text = JohnText
        /\ examples[1].span_a = <<0, 4>>
        /\ examples[1].span_b = <<15, 20>>

\* C2 amended: the John/Paris record gives text "John lives in Paris",
\* span_a = (0, 5) and span_b = (14, 20).
C2_JohnSpansWithSpace ==
    (Created /\ data = <<JohnItem(LivesIn)>>) =>
        /\ Len(examples) = 1
        /\ examples[1].text = JohnText
        /\ examples[1].span_a = <<0, 5>>
        /\ examples[1].span_b = <<14, 20>>
        /\ examples[1].type_a = "PERSON" /\ examples[1].type_b = "CITY"
        /\ examples[1].label = LivesIn

C2_Witness == Created /\ data = <<JohnItem(LivesIn)>> /\ examples[1].text = JohnText

TrainLabels == {data[i].relation : i \in Records}

\* C5: the list get_label_list returns starts with no_relation, holds no_relation
\* exactly once, and goes on with the distinct other training labels in strictly
\* increasing lexicographic order.
C5_LabelList ==
    Labelled =>
        /\ Len(label_list) >= 1
        /\ label_list[1] = NoRelation
        /\ Cardinality({k \in 1..Len(label_list) : label_list[k] = NoRelation}) = 1
        /\ {label_list[k] : k \in 2..Len(label_list)} = TrainLabels \ {NoRelation}
        /\ \A k \in 2..(Len(label_list) - 1) : StrLess(label_list[k], label_list[k + 1])

\* a training file that carries no_relation and a label that is a prefix of another
C5_Witness ==
    /\ Labelled
    /\ {NoRelation, OrgFounded, OrgFoundedBy} \subseteq TrainLabels
    /\ Len(label_list) = 3

\* C6 as stated: a record whose subj or obj span leaves its token list makes
\* _create_examples raise, and no example of the split is returned.
C6_OutOfBoundsRaises ==
    (Created /\ \E i \in Records : ~InBounds(data[i])) =>
        raised # "none" /\ examples = <<>>

EmittedFirst(example) ==
    IF example.span_a[1] < example.span_b[1] THEN "subj"
    ELSE IF example.span_b[1] < example.span_a[1] THEN "obj" ELSE "both"

\* C7 as stated: the entity with the smaller token start is emitted first, and on
\* equal token starts subj is emitted before obj.
C7_TieSubjFirst ==
    Created =>
        \A i \in Records :
            /\ data[i].subj_start < data[i].obj_start => EmittedFirst(examples[i]) = "subj"
            /\ data[i].obj_start < data[i].subj_start => EmittedFirst(examples[i]) = "obj"
            /\ data[i].subj_start = data[i].obj_start => EmittedFirst(examples[i]) = "subj"

\* C7 amended: the entity with the smaller token start is emitted first, and on
\* equal token starts obj is emitted before subj (the obj character span starts
\* before the subj character span).
C7_TieObjFirst ==
    Created =>
        \A i \in Records :
            /\ data[i].subj_start < data[i].obj_start => EmittedFirst(examples[i]) = "subj"
            /\ data[i].obj_start < data[i].subj_start => EmittedFirst(examples[i]) = "obj"
            /\ data[i].subj_start = data[i].obj_start => EmittedFirst(examples[i]) = "obj"

C7_Witness ==
    /\ Created
    /\ \E i \in Records :
        /\ InBounds(data[i])
        /\ data[i].subj_start = data[i].obj_start
        /\ examples[i].span_b[1] < examples[i].span_a[1]

WithinText(example, span) ==
    0 <= span[1] /\ span[1] < span[2] /\ span[2] <= Len(example.text)

\* C9 as stated: for a record with in-bounds, non-overlapping spans both recorded
\* character spans satisfy 0 <= start < end <= len(text).
C9_SpansWithinText ==
    Created =>
        \A i \in Records : Valid(data[i]) =>
            /\ WithinText(examples[i], examples[i].span_a)
            /\ WithinText(examples[i], examples[i].span_b)

EndsAtLastToken(item, end) == end = Len(item.token) - 1

SpanUpToStrippedSpace(item, example, span, end) ==
    /\ 0 <= span[1] /\ span[1] < span[2]
    /\ PlainTokens(item) =>
        IF EndsAtLastToken(item, end)
        THEN span[2] = Len(example.text) + 1
        ELSE span[2] <= Len(example.text)

\* C9 amended: for a record with in-bounds, non-overlapping spans both recorded
\* character spans satisfy 0 <= start < end; when every token is non-empty and free
\* of whitespace, end <= len(text) for an entity that does not end at the last
\* token, and end = len(text) + 1 for the entity that ends at the last token.
C9_SpansUpToStrippedSpace ==
    Created =>
        \A i \in Records : Valid(data[i]) =>
            /\ SpanUpToStrippedSpace(data[i], examples[i], examples[i].span_a,
                                     data[i].subj_end)
            /\ SpanUpToStrippedSpace(data[i], examples[i], examples[i].span_b,
                                     data[i].obj_end)

C9_Witness ==
    /\ Created
    /\ \E i \in Records :
        /\ Valid(data[i]) /\ PlainTokens(data[i])
        /\ EndsAtLastToken(data[i], data[i].subj_end)
        /\ examples[i].span_a[2] = Len(examples[i].text) + 1
        /\ WithinText(examples[i], examples[i].span_b)

\* C10 as stated: for a record with in-bounds, non-overlapping spans and tokens
\* without whitespace the rebuilt text is ' '.join(tokens).
C10_TextIsJoin ==
    Created =>
        \A i \in Records : (Valid(data[i]) /\ NoWhitespace(data[i])) =>
            examples[i].text = Join(data[i].token)

\* the tokens up to the end of the entity that comes first, and those from the
\* start of the entity that comes second
FirstPart(item) == SubSeq(item.token, 1, Min(item.subj_end, item.obj_end) + 1)

SecondPart(item) ==
    SubSeq(item.token, Max(item.subj_start, item.obj_start) + 1, Len(item.token))

\* C10 amended: for a record with in-bounds, non-overlapping spans and tokens that
\* are non-empty and free of whitespace, the rebuilt text is ' '.join(tokens) when
\* at least one token lies between the two entities; when the entities are
\* adjacent, two spaces instead of one separate them.
C10_TextIsJoinUnlessAdjacent ==
    Created =>
        \A i \in Records : (Valid(data[i]) /\ PlainTokens(data[i])) =>
            examples[i].text =
                IF Adjacent(data[i])
                THEN Join(FirstPart(data[i])) \o <<SP, SP>> \o Join(SecondPart(data[i]))
                ELSE Join(data[i].token)

\* entities at token 0 and at the last token with a token between them
C10_Witness ==
    /\ Created
    /\ \E i \in Records :
        /\ Valid(data[i]) /\ PlainTokens(data[i]) /\ ~Adjacent(data[i])
        /\ data[i].obj_start = 0
        /\ data[i].subj_end = Len(data[i].token) - 1
        /\ examples[i].text = Join(data[i].token)

(***************************************************************************)
(* Properties of the feature encoder, checked under SpecEnc.               *)
(***************************************************************************)
Converted == "convert_examples_to_features" \in called

SpanNames == <<"span_a", "span_b">>

\* ids is max_mention_length long: the first indices of the token span, one by
\* one, as many as fit, and -1 after them
PaddedPositions(ids, token_span, max_mention_length) ==
    LET kept == Min(token_span[2] - token_span[1], max_mention_length)
    IN  /\ Len(ids) = max_mention_length
        /\ \A j \in 1..kept : ids[j] = token_span[1] + j - 1
        /\ \A j \in (kept + 1)..max_mention_length : ids[j] = -1

\* C3: each of the two arrays of entity_position_ids has max_mention_length
\* entries: the consecutive token indices of the entity from its first one on, cut
\* to max_mention_length, and then only -1.
C3_PositionIds ==
    Converted =>
        \A i \in 1..Len(features) : \A k \in 1..2 :
            PaddedPositions(features[i].entity_position_ids[k],
                            locals[i].token_spans[SpanNames[k]],
                            args.max_mention_length)

TokenCount(i, span_name) ==
    locals[i].token_spans[span_name][2] - locals[i].token_spans[span_name][1]

\* one entity has more tokens than max_mention_length and is cut, the other has
\* fewer and is padded
C3_Witness ==
    /\ Converted
    /\ \E i \in 1..Len(features) :
        /\ TokenCount(i, "span_a") > args.max_mention_length
        /\ TokenCount(i, "span_b") > 0
        /\ TokenCount(i, "span_b") < args.max_mention_length
        /\ features[i].entity_position_ids[2][args.max_mention_length] = -1
        /\ features[i].entity_position_ids[1][args.max_mention_length] =
              locals[i].token_spans.span_a[1] + args.max_mention_length - 1

EntityTokens(i, span_name) ==
    Tokenize(args.tokenizer, PySlice(examples[i].text, examples[i][span_name][1],
                                     examples[i][span_name][2]))

\* the tokens from the recorded start to the recorded end are the marker, the
\* entity's subword tokens and the marker again
Wrapped(i, span_name, marker) ==
    LET token_span == locals[i].token_spans[span_name]
    IN  /\ 0 < token_span[1] /\ token_span[1] + 2 <= token_span[2]
        /\ token_span[2] < Len(locals[i].tokens)
        /\ locals[i].tokens[token_span[1] + 1] = marker
        /\ locals[i].tokens[token_span[2]] = marker
        /\ SubSeq(locals[i].tokens, token_span[1] + 2, token_span[2] - 1)
              = EntityTokens(i, span_name)

\* C4: with use_marker_token the token at an entity's recorded start is its opening
\* marker, the token before its recorded end is its closing marker, and exactly the
\* entity's subword tokens lie between them; the markers are [HEAD] for span_a and
\* [TAIL] for span_b, whichever span comes first.
C4_MarkersWrapEntities ==
    (Converted /\ args.use_marker_token) =>
        \A i \in 1..Len(locals) :
            /\ Wrapped(i, "span_a", HEAD_TOKEN)
            /\ Wrapped(i, "span_b", TAIL_TOKEN)

\* span_b lies before span_a in the text and both entities have subword tokens
C4_Witness ==
    /\ Converted /\ args.use_marker_token
    /\ \E i \in 1..Len(locals) :
        /\ examples[i].span_b[2] <= examples[i].span_a[1]
        /\ EntityTokens(i, "span_a") # <<>>
        /\ Len(EntityTokens(i, "span_b")) > 1
        /\ locals[i].token_spans.span_b[2] <= locals[i].token_spans.span_a[1]
        /\ locals[i].tokens[locals[i].token_spans.span_b[1] + 1] = TAIL_TOKEN

\* the span the loop over span_order took first
ProcessedFirst(i) == locals[i].span_order[1]

ProcessedSecond(i) == locals[i].span_order[2]

\* C8 as stated: for every example the two spans are processed in order of
\* increasing start offset, span_a first when the start offsets are equal.
C8_OrderByStart ==
    Converted =>
        \A i \in 1..Len(locals) :
            ProcessedFirst(i) =
                IF examples[i].span_a[1] <= examples[i].span_b[1] THEN "span_a" ELSE "span_b"

\* C8 amended: for every example the two spans are processed in order of increasing
\* end offset, span_b first when the end offsets are equal; for spans that do not
\* overlap this is the order of increasing start offset.
C8_OrderByEnd ==
    Converted =>
        \A i \in 1..Len(locals) :
            /\ ProcessedFirst(i) =
                  IF examples[i].span_a[2] < examples[i].span_b[2] THEN "span_a" ELSE "span_b"
            /\ locals[i].token_spans[ProcessedFirst(i)][2]
                  <= locals[i].token_spans[ProcessedSecond(i)][1]
            /\ examples[i].span_a[2] <= examples[i].span_b[1] => ProcessedFirst(i) = "span_a"
            /\ examples[i].span_b[2] <= examples[i].span_a[1] => ProcessedFirst(i) = "span_b"

\* span_a starts first and the two spans end together: span_b is processed first
C8_Witness ==
    /\ Converted
    /\ \E i \in 1..Len(locals) :
        /\ examples[i].span_a[1] < examples[i].span_b[1]
        /\ examples[i].span_a[2] = examples[i].span_b[2]
        /\ ProcessedFirst(i) = "span_b"
        /\ locals[i].token_spans.span_b[2] <= locals[i].token_spans.span_a[1]

====
